---- MODULE Spec2Model ----
(***************************************************************************)
(* waf-checker: a model of src/waf_checker.py.                             *)
(*                                                                         *)
(* The program probes a list of URLs, one after the other.  For each URL   *)
(* it collects indicators from DNS (TXT and CNAME records) and from one    *)
(* HTTP response (headers, cookies, body), matches them against the        *)
(* pattern registry WAFChecker.waf_patterns, and resolves a vendor.        *)
(*                                                                         *)
(* Python values are modelled as follows.                                  *)
(*   - a str that the code inspects (lower(), `in`, split, f-strings) is   *)
(*     the sequence of its characters, so that the text operations are     *)
(*     computed and not assumed;                                           *)
(*   - a str the code only passes on (a URL, an exception message) is a    *)
(*     TLA+ string;                                                        *)
(*   - an optional value is a sequence of length 0 (None) or 1 (a value);  *)
(*   - a dict is the sequence of its items in insertion order, which is    *)
(*     the order Python iterates it in;                                    *)
(*   - a raised exception is the name of its class, "" meaning no raise.   *)
(***************************************************************************)
EXTENDS Integers, Sequences, FiniteSets, TLC

VARIABLES
    pc,             \* main: position of the run
    urls,           \* main: the URL list under test
    results,        \* main: the list `results` of the batch loop
    result,         \* check_waf_protection: the dict `result` of the URL in flight
    env,            \* what DNS and HTTP did for each URL checked so far
    saved,          \* the argument of every save_results call so far
    exit_code,      \* the exit code of the process, once it has ended
    dns_txt,        \* _check_dns_indicators: outcome of resolve(domain, 'TXT')
    dns_cname,      \* _check_dns_indicators: outcome of resolve(domain, 'CNAME')
    dns_return,     \* _check_dns_indicators: how the call ended
    http_response,  \* _check_http_indicators: the response argument
    http_return,    \* _check_http_indicators: how the call ended
    dwt_indicators, \* _determine_waf_type: the indicators argument
    dwt_return,     \* _determine_waf_type: how the call ended
    json_results,   \* _save_json: the results argument
    json_config,    \* _save_json: local_mode and s3_bucket of the checker, and
                    \* whether put_object succeeds
    json_return,    \* _save_json: how the call ended and what it wrote
    src_call,       \* which URL source is called
    src_file,       \* load_urls_from_file: the lines of the file
    src_zones,      \* get_route53_records: the hosted zones of the account
    src_zone_id,    \* get_route53_records: the hosted_zone_id argument
    src_max,        \* max_urls / max_records
    src_return      \* the URL source: how the call ended

mainVars == <<pc, urls, results, result, env, saved, exit_code>>
dnsVars  == <<dns_txt, dns_cname, dns_return>>
httpVars == <<http_response, http_return>>
dwtVars  == <<dwt_indicators, dwt_return>>
sinkVars == <<json_results, json_config, json_return>>
srcVars  == <<src_call, src_file, src_zones, src_zone_id, src_max, src_return>>
vars     == <<mainVars, dnsVars, httpVars, dwtVars, sinkVars, srcVars>>

(***************************************************************************)
(* Bounds of the model.                                                    *)
(***************************************************************************)
MaxUrls       == 2   \* longest URL list of a batch
MaxRecords    == 1   \* most records in one DNS answer
MaxHeaders    == 1   \* most headers in one HTTP response
MaxIndicators == 3   \* longest indicator list given to _determine_waf_type
MaxBatch      == 3   \* longest batch given to _save_json
MaxLines      == 3   \* most lines in a URL file
MaxZones      == 2   \* most hosted zones in the account
MaxZoneRecords == 2  \* most record sets in one hosted zone

(***************************************************************************)
(* Python values.                                                          *)
(***************************************************************************)
None    == <<>>
Some(v) == <<v>>

SeqsUpTo(S, n) == UNION {[1..k -> S] : k \in 0..n}
Range(s)       == {s[i] : i \in 1..Len(s)}

UpperChars == <<"A","B","C","D","E","F","G","H","I","J","K","L","M",
                "N","O","P","Q","R","S","T","U","V","W","X","Y","Z">>
LowerChars == <<"a","b","c","d","e","f","g","h","i","j","k","l","m",
                "n","o","p","q","r","s","t","u","v","w","x","y","z">>

\* str.lower()
lower_char(c) ==
    IF \E i \in 1..26 : UpperChars[i] = c
    THEN LowerChars[CHOOSE i \in 1..26 : UpperChars[i] = c]
    ELSE c
lower(s) == [i \in 1..Len(s) |-> lower_char(s[i])]

\* str.upper(), used to build inputs in another letter case
upper_char(c) ==
    IF \E i \in 1..26 : LowerChars[i] = c
    THEN UpperChars[CHOOSE i \in 1..26 : LowerChars[i] = c]
    ELSE c
upper(s) == [i \in 1..Len(s) |-> upper_char(s[i])]

\* `p in s` on two str
contains(p, s) ==
    \E i \in 0..(Len(s) - Len(p)) : SubSeq(s, i + 1, i + Len(p)) = p

\* s.split('_')[-1]: what follows the last underscore, all of s without one
split_last(s) ==
    LET us == {i \in 1..Len(s) : s[i] = "_"}
        k  == IF us = {} THEN 0 ELSE CHOOSE i \in us : \A j \in us : j <= i
    IN  SubSeq(s, k + 1, Len(s))

(***************************************************************************)
(* The strings of the program.                                             *)
(***************************************************************************)
s_cloudflare == <<"c","l","o","u","d","f","l","a","r","e">>
s_cfduid == <<"_","_","c","f","d","u","i","d">>
s_cf_ray == <<"c","f","-","r","a","y">>
s_aws_waf == <<"a","w","s","_","w","a","f">>
s_x_amz_cf_id == <<"x","-","a","m","z","-","c","f","-","i","d">>
s_x_amz_cf_pop == <<"x","-","a","m","z","-","c","f","-","p","o","p">>
s_akamai == <<"a","k","a","m","a","i">>
s_x_akamai_transformed == <<"x","-","a","k","a","m","a","i","-","t","r","a","n","s","f","o","r","m","e","d">>
s_fastly == <<"f","a","s","t","l","y">>
s_x_fastly == <<"x","-","f","a","s","t","l","y">>
s_imperva == <<"i","m","p","e","r","v","a">>
s_incap_ses == <<"i","n","c","a","p","_","s","e","s">>
s_visid_incap == <<"v","i","s","i","d","_","i","n","c","a","p">>
s_x_iinfo == <<"x","-","i","i","n","f","o">>
s_f5_bigip == <<"f","5","_","b","i","g","i","p">>
s_bigip == <<"b","i","g","i","p">>
s_x_wa_info == <<"x","-","w","a","-","i","n","f","o">>
s_barracuda == <<"b","a","r","r","a","c","u","d","a">>
s_barra_counter_session == <<"b","a","r","r","a","_","c","o","u","n","t","e","r","_","s","e","s","s","i","o","n">>
s_citrix == <<"c","i","t","r","i","x">>
s_ns_af == <<"n","s","_","a","f">>
s_sucuri == <<"s","u","c","u","r","i">>
s_x_sucuri == <<"x","-","s","u","c","u","r","i">>
s_cloudfront == <<"c","l","o","u","d","f","r","o","n","t">>
s_unknown == <<"u","n","k","n","o","w","n">>
s_DNS_TXT == <<"D","N","S","_","T","X","T","_">>
s_DNS_CNAME == <<"D","N","S","_","C","N","A","M","E","_">>
s_HTTP_HEADER == <<"H","T","T","P","_","H","E","A","D","E","R","_">>
s_HTTP_COOKIE == <<"H","T","T","P","_","C","O","O","K","I","E","_">>
s_HTTP_BODY == <<"H","T","T","P","_","B","O","D","Y","_">>

(***************************************************************************)
(* WAFChecker.waf_patterns, in the order of the dict literal.              *)
(***************************************************************************)
waf_patterns ==
    << [name |-> s_cloudflare, patterns |-> <<s_cloudflare, s_cfduid, s_cf_ray>>],
       [name |-> s_aws_waf,    patterns |-> <<s_x_amz_cf_id, s_x_amz_cf_pop, s_x_amz_cf_id>>],
       [name |-> s_akamai,     patterns |-> <<s_akamai, s_x_akamai_transformed>>],
       [name |-> s_fastly,     patterns |-> <<s_fastly, s_x_fastly>>],
       [name |-> s_imperva,    patterns |-> <<s_incap_ses, s_visid_incap, s_x_iinfo>>],
       [name |-> s_f5_bigip,   patterns |-> <<s_bigip, s_x_wa_info>>],
       [name |-> s_barracuda,  patterns |-> <<s_barra_counter_session, s_barra_counter_session>>],
       [name |-> s_citrix,     patterns |-> <<s_citrix, s_ns_af>>],
       [name |-> s_sucuri,     patterns |-> <<s_sucuri, s_x_sucuri>>],
       [name |-> s_cloudfront, patterns |-> <<s_x_amz_cf_id, s_x_amz_cf_pop>>] >>

Vendors == 1..Len(waf_patterns)

\* any(pattern in text for pattern in patterns)
any_pattern_in(patterns, text) ==
    \E k \in 1..Len(patterns) : contains(patterns[k], text)

\* [f"{prefix}{waf_name}" for waf_name, patterns in waf_patterns.items() if hit],
\* where hit[v] tells whether the patterns of the v-th vendor match
RECURSIVE tag_from(_, _, _)
tag_from(v, prefix, hit) ==
    IF v > Len(waf_patterns) THEN <<>>
    ELSE (IF hit[v] THEN <<prefix \o waf_patterns[v].name>> ELSE <<>>)
         \o tag_from(v + 1, prefix, hit)

\* the indicators one probed text adds: one per vendor with a matching pattern
match_text(prefix, text) ==
    tag_from(1, prefix, [v \in Vendors |-> any_pattern_in(waf_patterns[v].patterns, text)])

(***************************************************************************)
(* WAFChecker._determine_waf_type                                          *)
(***************************************************************************)
\* waf_counts[waf_name] = waf_counts.get(waf_name, 0) + 1
dict_incr(d, k) ==
    IF \E i \in 1..Len(d) : d[i].key = k
    THEN [i \in 1..Len(d) |->
            IF d[i].key = k THEN [key |-> k, count |-> d[i].count + 1] ELSE d[i]]
    ELSE Append(d, [key |-> k, count |-> 1])

\* the dict waf_counts after the loop over the indicators
RECURSIVE waf_counts(_)
waf_counts(indicators) ==
    IF indicators = <<>> THEN <<>>
    ELSE dict_incr(waf_counts(SubSeq(indicators, 1, Len(indicators) - 1)),
                   split_last(indicators[Len(indicators)]))

\* dict_max with the last of the largest counts taken, as a loop comparing with >=
\* would take it
dict_max_last(d) ==
    LET i == CHOOSE i \in 1..Len(d) :
                 /\ \A j \in 1..Len(d) : d[j].count <= d[i].count
                 /\ \A j \in (i + 1)..Len(d) : d[j].count < d[i].count
    IN  d[i].key

\* max(d, key=d.get): the first key, in iteration order, whose count is largest
dict_max(d) ==
    LET i == CHOOSE i \in 1..Len(d) :
                 /\ \A j \in 1..Len(d) : d[j].count <= d[i].count
                 /\ \A j \in 1..(i - 1) : d[j].count < d[i].count
    IN  d[i].key

determine_waf_type(indicators) ==
    LET counts == waf_counts(indicators)
    IN  IF counts /= <<>> THEN dict_max(counts) ELSE s_unknown

(***************************************************************************)
(* Exceptions.  KeyboardInterrupt derives from BaseException only; every   *)
(* other class below derives from Exception.                               *)
(***************************************************************************)
NoException == ""
RequestExceptionClasses == {"requests.ConnectionError", "requests.Timeout"}
ExceptionClasses ==
    {"dns.NXDOMAIN", "dns.NoAnswer", "dns.Timeout", "NameError", "ValueError",
     "UnicodeError", "FileNotFoundError", "OSError", "KeyError",
     "NoCredentialsError", "ClientError"} \cup RequestExceptionClasses

\* str(e)
str_exception(e) ==
    CASE e = "requests.ConnectionError" -> "Connection refused"
      [] e = "requests.Timeout"         -> "Read timed out"
      [] e = "ValueError"               -> "Invalid IPv6 URL"
      [] OTHER                          -> e

(***************************************************************************)
(* WAFChecker._check_dns_indicators                                        *)
(*                                                                         *)
(* A lookup outcome is [exc, records]: the exception dns.resolver.resolve  *)
(* raised, or the records of its answer.  A TXT record is its text, a      *)
(* CNAME record is the sequence of the labels of record.target.            *)
(***************************************************************************)
dns_raises(e)       == [exc |-> e, records |-> <<>>]
dns_answer(records) == [exc |-> NoException, records |-> records]

\* str(record) of a TXT record: the text within double quotes
str_txt(record) == <<"\"">> \o record \o <<"\"">>

\* str(record.target): the labels of the absolute name, each followed by a dot
RECURSIVE str_name(_)
str_name(labels) ==
    IF labels = <<>> THEN <<>>
    ELSE labels[1] \o <<".">> \o str_name(Tail(labels))

\* the list literal of line 220
cdn_tokens == <<s_cloudflare, s_akamai, s_fastly, s_cloudfront>>

\* lines 205-209: the loop over the TXT records
RECURSIVE txt_loop(_)
txt_loop(records) ==
    IF records = <<>> THEN <<>>
    ELSE match_text(s_DNS_TXT, lower(str_txt(records[1]))) \o txt_loop(Tail(records))

\* lines 203-213: the TXT lookup within its try; NXDOMAIN and NoAnswer are passed over
txt_block(txt) ==
    IF txt.exc = NoException
    THEN [exc |-> NoException, indicators |-> txt_loop(txt.records)]
    ELSE IF txt.exc \in {"dns.NXDOMAIN", "dns.NoAnswer"}
    THEN [exc |-> NoException, indicators |-> <<>>]
    ELSE [exc |-> txt.exc, indicators |-> <<>>]

\* lines 218-221: the loop over the CNAME records.  Line 221 formats
\* f"DNS_CNAME_{cdn}", and cdn is the variable of the generator expression of
\* line 220, which is bound in that generator only: at line 221 the name is
\* neither a local nor a global, and reading it raises NameError.
RECURSIVE cname_loop(_)
cname_loop(records) ==
    IF records = <<>> THEN NoException
    ELSE IF \E k \in 1..Len(cdn_tokens) :
                contains(cdn_tokens[k], lower(str_name(records[1])))
    THEN "NameError"
    ELSE cname_loop(Tail(records))

\* lines 216-223: the CNAME lookup within its try; only NoAnswer is passed over
cname_block(indicators, cname) ==
    IF cname.exc = NoException
    THEN [exc |-> cname_loop(cname.records), indicators |-> indicators]
    ELSE IF cname.exc = "dns.NoAnswer"
    THEN [exc |-> NoException, indicators |-> indicators]
    ELSE [exc |-> cname.exc, indicators |-> indicators]

\* check_dns_indicators without the outer handler of lines 225-226
check_dns_indicators_unguarded(txt, cname) ==
    LET t == txt_block(txt)
        c == IF t.exc = NoException THEN cname_block(t.indicators, cname) ELSE t
    IN  [raised     |-> c.exc,
         indicators |-> IF c.exc = NoException THEN c.indicators ELSE <<>>,
         lookups    |-> IF t.exc = NoException THEN <<"TXT", "CNAME">> ELSE <<"TXT">>]

\* lines 199-228: [raised, indicators, lookups]; the outer handler catches
\* Exception.  lookups lists the record types resolve was called for: an
\* exception that leaves the TXT try goes to line 225, past the CNAME lookup.
check_dns_indicators(txt, cname) ==
    LET t == txt_block(txt)
        c == IF t.exc = NoException THEN cname_block(t.indicators, cname) ELSE t
    IN  [raised     |-> IF c.exc \in ExceptionClasses THEN NoException ELSE c.exc,
         indicators |-> IF c.exc = NoException \/ c.exc \in ExceptionClasses
                        THEN c.indicators ELSE <<>>,
         lookups    |-> IF t.exc = NoException THEN <<"TXT", "CNAME">> ELSE <<"TXT">>]

(***************************************************************************)
(* WAFChecker._check_http_indicators                                       *)
(*                                                                         *)
(* A response is [status_code, headers, cookies, text]: headers a sequence *)
(* of [name, value], cookies the sequence of the cookie names, text the    *)
(* decoded body, None when reading response.text raises.                   *)
(***************************************************************************)
\* header_loop with the patterns tested against the header name as sent, not
\* lowered
RECURSIVE header_loop_cased(_)
header_loop_cased(headers) ==
    IF headers = <<>> THEN <<>>
    ELSE LET header_value_lower == lower(headers[1].value)
             hit == [v \in Vendors |->
                        \E k \in 1..Len(waf_patterns[v].patterns) :
                            \/ contains(waf_patterns[v].patterns[k], headers[1].name)
                            \/ contains(waf_patterns[v].patterns[k], header_value_lower)]
         IN  tag_from(1, s_HTTP_HEADER, hit) \o header_loop_cased(Tail(headers))

\* lines 235-241
RECURSIVE header_loop(_)
header_loop(headers) ==
    IF headers = <<>> THEN <<>>
    ELSE LET header_lower       == lower(headers[1].name)
             header_value_lower == lower(headers[1].value)
             hit == [v \in Vendors |->
                        \E k \in 1..Len(waf_patterns[v].patterns) :
                            \/ contains(waf_patterns[v].patterns[k], header_lower)
                            \/ contains(waf_patterns[v].patterns[k], header_value_lower)]
         IN  tag_from(1, s_HTTP_HEADER, hit) \o header_loop(Tail(headers))

\* lines 244-248
RECURSIVE cookie_loop(_)
cookie_loop(cookies) ==
    IF cookies = <<>> THEN <<>>
    ELSE match_text(s_HTTP_COOKIE, lower(cookies[1])) \o cookie_loop(Tail(cookies))

\* lines 251-257: the bare except swallows a failure to read response.text
body_block(text) ==
    IF text = None THEN <<>> ELSE match_text(s_HTTP_BODY, lower(text[1]))

check_http_indicators(response) ==
    header_loop(response.headers) \o cookie_loop(response.cookies)
        \o body_block(response.text)

(***************************************************************************)
(* WAFChecker.check_waf_protection                                         *)
(*                                                                         *)
(* The body of the try is two blocking steps, the DNS collection and the   *)
(* HTTP fetch with what follows it; each ends in [exc, result], exc the    *)
(* exception that left the try at that step.                               *)
(***************************************************************************)
\* lines 148-156
new_result(url) ==
    [url            |-> url,
     waf_detected   |-> FALSE,
     waf_type       |-> None,
     waf_indicators |-> <<>>,
     status_code    |-> None,
     response_time  |-> None,
     error          |-> None]

\* urlparse(url) raises ValueError on an unclosed bracket in the host
urlparse_raises(url) == url = "https://[::1"

\* check_waf_protection_dns without line 163
check_waf_protection_dns_unflagged(res, txt, cname) ==
    IF urlparse_raises(res.url)
    THEN [exc |-> "ValueError", result |-> res]
    ELSE LET dns == check_dns_indicators(txt, cname)
         IN  IF dns.raised /= NoException
             THEN [exc |-> dns.raised, result |-> res]
             ELSE [exc    |-> NoException,
                   result |-> [res EXCEPT !.waf_indicators = @ \o dns.indicators]]

\* lines 160-164
check_waf_protection_dns(res, txt, cname) ==
    IF urlparse_raises(res.url)
    THEN [exc |-> "ValueError", result |-> res]
    ELSE LET dns == check_dns_indicators(txt, cname)
         IN  IF dns.raised /= NoException
             THEN [exc |-> dns.raised, result |-> res]
             ELSE [exc    |-> NoException,
                   result |-> IF dns.indicators /= <<>>
                              THEN [res EXCEPT !.waf_detected = TRUE,
                                               !.waf_indicators = @ \o dns.indicators]
                              ELSE res]

\* lines 167-186; http is [exc, response, elapsed], the outcome of requests.get
check_waf_protection_http(res, http) ==
    IF http.exc /= NoException
    THEN [exc |-> http.exc, result |-> res]
    ELSE LET timed   == [res EXCEPT !.response_time = Some(http.elapsed),
                                    !.status_code = Some(http.response.status_code)]
             found   == check_http_indicators(http.response)
             merged  == IF found /= <<>>
                        THEN [timed EXCEPT !.waf_detected = TRUE,
                                           !.waf_indicators = @ \o found]
                        ELSE timed
         IN  [exc    |-> NoException,
              result |-> IF merged.waf_indicators /= <<>>
                         THEN [merged EXCEPT !.waf_type =
                                   Some(determine_waf_type(merged.waf_indicators))]
                         ELSE merged]

\* check_waf_protection_except without the handler of lines 191-193
check_waf_protection_except_requests(step) ==
    IF step.exc = NoException
    THEN [raised |-> NoException, result |-> step.result]
    ELSE IF step.exc \in RequestExceptionClasses
    THEN [raised |-> NoException,
          result |-> [step.result EXCEPT !.error = Some(str_exception(step.exc))]]
    ELSE [raised |-> step.exc, result |-> step.result]

\* lines 188-195: [raised, result]; raised is what leaves check_waf_protection
check_waf_protection_except(step) ==
    IF step.exc = NoException
    THEN [raised |-> NoException, result |-> step.result]
    ELSE IF step.exc \in RequestExceptionClasses
    THEN [raised |-> NoException,
          result |-> [step.result EXCEPT !.error = Some(str_exception(step.exc))]]
    ELSE IF step.exc \in ExceptionClasses
    THEN [raised |-> NoException,
          result |-> [step.result EXCEPT !.error = Some(str_exception(step.exc))]]
    ELSE [raised |-> step.exc, result |-> step.result]

(***************************************************************************)
(* Inputs.                                                                 *)
(***************************************************************************)
NonEmptySeqsUpTo(S, n) == SeqsUpTo(S, n) \ {<<>>}

t_spf        == <<"v","=","s","p","f","1"," ","-","a","l","l">>
t_cloudflare == <<"C","l","o","u","d","F","l","a","r","e","-","V","e","r","i","f","y">>
t_amz        == <<"x","-","a","m","z","-","c","f","-","i","d","=","1">>
TxtRecords   == {t_spf, t_cloudflare, t_amz}

l_d111    == <<"d","1","1","1","1","1","1","a","b","c","d","e","f","8">>
l_net     == <<"n","e","t">>
l_edge    == <<"e","d","g","e">>
l_origin  == <<"o","r","i","g","i","n">>
l_example == <<"e","x","a","m","p","l","e">>
l_com     == <<"c","o","m">>

\* CNAME targets that contain the k-th CDN token: as a label, within a label,
\* and in upper case
TargetsOf(k) ==
    { <<l_d111, cdn_tokens[k], l_net>>,
      <<l_d111, cdn_tokens[k] \o l_edge, l_net>>,
      <<upper(l_d111), upper(cdn_tokens[k]), upper(l_net)>> }
CnameTargets ==
    UNION {TargetsOf(k) : k \in 1..Len(cdn_tokens)} \cup {<<l_origin, l_example, l_com>>}

DnsFailures == {"dns.NXDOMAIN", "dns.NoAnswer", "dns.Timeout"}

TxtOutcomes ==
    {dns_raises(e) : e \in DnsFailures}
        \cup {dns_answer(r) : r \in NonEmptySeqsUpTo(TxtRecords, MaxRecords)}
CnameOutcomes ==
    {dns_raises(e) : e \in DnsFailures}
        \cup {dns_answer(r) : r \in NonEmptySeqsUpTo(CnameTargets, MaxRecords)}

\* a name that does not exist has no record of any type
DnsConsistent(txt, cname) ==
    /\ txt.exc = "dns.NXDOMAIN" => cname.exc \in {"dns.NXDOMAIN", "dns.Timeout"}
    /\ cname.exc = "dns.NXDOMAIN" => txt.exc \in {"dns.NXDOMAIN", "dns.Timeout"}

h_server   == <<"S","e","r","v","e","r">>
h_nginx    == <<"n","g","i","n","x">>
h_cf_ray   == <<"C","F","-","R","A","Y">>
h_abcd1234 == <<"a","b","c","d","1","2","3","4">>
c_session  == <<"s","e","s","s","i","o","n">>
b_plain    == <<"<","h","t","m","l",">","o","k","<","/","h","t","m","l",">">>
b_sucuri   == <<"<","h","t","m","l",">","S","u","c","u","r","i","<","/","h","t","m","l",">">>

Signatures == UNION {Range(waf_patterns[v].patterns) : v \in Vendors}

\* header names made of signature S: S itself, S within a longer name, and
\* both in upper case
within(S)      == <<"a","-">> \o S \o <<"-","z">>
NameVariants(S) == {S, within(S), upper(S), upper(within(S))}

Headers ==
    {[name |-> n, value |-> h_abcd1234] :
        n \in UNION {NameVariants(S) : S \in Signatures}}
    \cup {[name |-> h_server, value |-> h_nginx],
          [name |-> h_server, value |-> s_cloudflare]}

Responses ==
    [status_code : {200},
     headers     : SeqsUpTo(Headers, MaxHeaders),
     cookies     : {<<>>, <<c_session>>, <<s_cfduid>>},
     text        : {None, Some(b_plain), Some(b_sucuri)}]

IndicatorPrefixes == {s_DNS_CNAME, s_HTTP_HEADER}
Indicators == {p \o waf_patterns[v].name : p \in IndicatorPrefixes, v \in Vendors}

\* the batch: URLs, and what DNS and HTTP do for one URL
Urls == {"https://a.example", "https://[::1"}

MainDnsWorlds ==
    { <<dns_raises("dns.NoAnswer"), dns_raises("dns.NoAnswer")>>,
      <<dns_raises("dns.NXDOMAIN"), dns_raises("dns.NXDOMAIN")>>,
      <<dns_raises("dns.Timeout"), dns_raises("dns.NoAnswer")>>,
      <<dns_answer(<<t_cloudflare>>), dns_raises("dns.NoAnswer")>>,
      <<dns_raises("dns.NoAnswer"),
        dns_answer(<< <<l_d111, s_cloudfront, l_net>> >>)>> }

http_raises(e)    == [exc |-> e, response |-> None, elapsed |-> 0]
http_answer(resp) == [exc |-> NoException, response |-> resp, elapsed |-> 120]

MainHttpWorlds ==
    { http_answer([status_code |-> 200,
                   headers |-> << [name |-> h_server, value |-> h_nginx] >>,
                   cookies |-> <<>>, text |-> Some(b_plain)]),
      http_answer([status_code |-> 403,
                   headers |-> << [name |-> h_cf_ray, value |-> h_abcd1234] >>,
                   cookies |-> <<s_cfduid>>, text |-> None]),
      http_raises("requests.ConnectionError"),
      http_raises("UnicodeError") }

(***************************************************************************)
(* main: the batch.                                                        *)
(*                                                                         *)
(* pc: "start" before the URL list is built; "loop" at the head of the for *)
(* loop; "http" with the DNS step of the URL in flight done; "sleep" in    *)
(* time.sleep; then how the run ended: "done", "interrupted", or the       *)
(* handler of line 452 reached from the URL source ("load_failed"), from   *)
(* the loop ("check_failed") or from save_results ("save_failed").         *)
(***************************************************************************)
dnsIdle  == dns_txt = None /\ dns_cname = None /\ dns_return = None
httpIdle == http_response = None /\ http_return = None
dwtIdle  == dwt_indicators = None /\ dwt_return = None
sinkIdle == json_results = None /\ json_config = None /\ json_return = None
srcIdle  ==
    /\ src_call = "idle" /\ src_file = None /\ src_zones = None
    /\ src_zone_id = None /\ src_max = None /\ src_return = None
mainIdle ==
    /\ pc = "idle" /\ urls = <<>> /\ results = <<>> /\ result = None
    /\ env = <<>> /\ saved = <<>> /\ exit_code = None

Init ==
    /\ pc = "start"
    /\ urls = <<>>
    /\ results = <<>>
    /\ result = None
    /\ env = <<>>
    /\ saved = <<>>
    /\ exit_code = None
    /\ dnsIdle /\ httpIdle /\ dwtIdle /\ sinkIdle /\ srcIdle

\* lines 416-427: the URL source returns a list; an empty one ends the run
LoadUrls ==
    /\ pc = "start"
    /\ \E us \in SeqsUpTo(Urls, MaxUrls) :
        /\ urls' = us
        /\ pc' = IF us = <<>> THEN "done" ELSE "loop"
        /\ exit_code' = IF us = <<>> THEN Some(0) ELSE None
    /\ UNCHANGED <<results, result, env, saved, dnsVars, httpVars, dwtVars, sinkVars, srcVars>>

\* lines 416-421, 452-454: the URL source raises, and the run exits with 1
LoadFails ==
    /\ pc = "start"
    /\ pc' = "load_failed"
    /\ exit_code' = Some(1)
    /\ UNCHANGED <<urls, results, result, env, saved, dnsVars, httpVars, dwtVars, sinkVars, srcVars>>

\* line 433 returns res (line 434 appends it), or raises what the call raised
\* (lines 450-454)
Returned(out, dns, http) ==
    IF out.raised = NoException
    THEN /\ results' = Append(results, out.result)
         /\ env' = Append(env, [dns |-> dns, http |-> http])
         /\ pc' = "sleep"
         /\ exit_code' = exit_code
    ELSE /\ results' = results
         /\ env' = env
         /\ pc' = IF out.raised \in ExceptionClasses THEN "check_failed" ELSE "interrupted"
         /\ exit_code' = IF out.raised \in ExceptionClasses THEN Some(1) ELSE Some(0)

\* lines 431-433, 148-164: the next URL's check begins and does its DNS step
DnsCheck ==
    /\ pc = "loop"
    /\ Len(results) < Len(urls)
    /\ \E w \in MainDnsWorlds :
        LET url  == urls[Len(results) + 1]
            step == check_waf_protection_dns(new_result(url), w[1], w[2])
        IN  IF step.exc = NoException
            THEN /\ result' = Some(step.result)
                 /\ pc' = "http"
                 /\ UNCHANGED <<results, env, exit_code>>
            ELSE /\ result' = None
                 /\ Returned(check_waf_protection_except(step), <<>>, "")
    /\ UNCHANGED <<urls, saved, dnsVars, httpVars, dwtVars, sinkVars, srcVars>>

\* lines 167-195, 434: the HTTP fetch and the rest of the check
HttpFetch ==
    /\ pc = "http"
    /\ \E h \in MainHttpWorlds :
        LET step == check_waf_protection_http(result[1], h)
        IN  Returned(check_waf_protection_except(step),
                     result[1].waf_indicators,
                     IF h.exc = NoException THEN "ok" ELSE h.exc)
    /\ result' = None
    /\ UNCHANGED <<urls, saved, dnsVars, httpVars, dwtVars, sinkVars, srcVars>>

\* line 437
Sleep ==
    /\ pc = "sleep"
    /\ pc' = "loop"
    /\ UNCHANGED <<urls, results, result, env, saved, exit_code,
                   dnsVars, httpVars, dwtVars, sinkVars, srcVars>>

\* lines 439-448, 452-454: the loop is over; save_results gets the results and
\* returns, or raises and the run exits with 1
SaveResults ==
    /\ pc = "loop"
    /\ Len(results) = Len(urls)
    /\ saved' = Append(saved, results)
    /\ \E sink_ok \in BOOLEAN :
        /\ pc' = IF sink_ok THEN "done" ELSE "save_failed"
        /\ exit_code' = IF sink_ok THEN Some(0) ELSE Some(1)
    /\ UNCHANGED <<urls, results, result, env, dnsVars, httpVars, dwtVars, sinkVars, srcVars>>

\* lines 450-451: the interrupt reaches the batch loop; the handler logs and main
\* returns
KeyboardInterrupt ==
    /\ pc \in {"loop", "http", "sleep"}
    /\ pc' = "interrupted"
    /\ result' = None
    /\ exit_code' = Some(0)
    /\ UNCHANGED <<urls, results, env, saved, dnsVars, httpVars, dwtVars, sinkVars, srcVars>>

Next ==
    \/ LoadUrls
    \/ LoadFails
    \/ DnsCheck
    \/ HttpFetch
    \/ Sleep
    \/ SaveResults
    \/ KeyboardInterrupt

Spec == Init /\ [][Next]_vars

(***************************************************************************)
(* _check_dns_indicators on its own: every pair of lookup outcomes.        *)
(***************************************************************************)
InitDns ==
    /\ mainIdle /\ httpIdle /\ dwtIdle /\ sinkIdle /\ srcIdle
    /\ dns_txt \in TxtOutcomes
    /\ dns_cname \in CnameOutcomes
    /\ DnsConsistent(dns_txt, dns_cname)
    /\ dns_return = None

CollectDns ==
    /\ dns_return = None
    /\ dns_return' = Some(check_dns_indicators(dns_txt, dns_cname))
    /\ UNCHANGED <<dns_txt, dns_cname, mainVars, httpVars, dwtVars, sinkVars, srcVars>>

NextDns == CollectDns

SpecDns == InitDns /\ [][NextDns]_vars

(***************************************************************************)
(* _check_http_indicators on its own: every response of Responses.         *)
(***************************************************************************)
InitHttp ==
    /\ mainIdle /\ dnsIdle /\ dwtIdle /\ sinkIdle /\ srcIdle
    /\ http_response \in Responses
    /\ http_return = None

CollectHttp ==
    /\ http_return = None
    /\ http_return' = Some(check_http_indicators(http_response))
    /\ UNCHANGED <<http_response, mainVars, dnsVars, dwtVars, sinkVars, srcVars>>

NextHttp == CollectHttp

SpecHttp == InitHttp /\ [][NextHttp]_vars

(***************************************************************************)
(* _determine_waf_type on its own: every indicator list up to              *)
(* MaxIndicators.                                                          *)
(***************************************************************************)
InitResolve ==
    /\ mainIdle /\ dnsIdle /\ httpIdle /\ sinkIdle /\ srcIdle
    /\ dwt_indicators \in SeqsUpTo(Indicators, MaxIndicators)
    /\ dwt_return = None

Resolve ==
    /\ dwt_return = None
    /\ dwt_return' = Some(determine_waf_type(dwt_indicators))
    /\ UNCHANGED <<dwt_indicators, mainVars, dnsVars, httpVars, sinkVars, srcVars>>

NextResolve == Resolve

SpecResolve == InitResolve /\ [][NextResolve]_vars

(***************************************************************************)
(* WAFChecker._save_json and WAFChecker._upload_to_s3                      *)
(*                                                                         *)
(* A call ends in [files, objects]: the local files written and the S3     *)
(* objects put, each with the document as its content.  The document is    *)
(* the value json.dump serialises, a dict as a record.  config is          *)
(* [local_mode, s3_bucket, put_ok, now]: the two attributes of the         *)
(* checker, whether s3.put_object succeeds, and int(time.time()).          *)
(***************************************************************************)
\* sum(1 for r in results if r['waf_type']), the count taken on the vendor
\* instead of on waf_detected
RECURSIVE count_typed(_)
count_typed(rs) ==
    IF rs = <<>> THEN 0
    ELSE (IF rs[1].waf_type /= None THEN 1 ELSE 0) + count_typed(Tail(rs))

\* line 323: sum(1 for r in results if r['waf_detected'])
RECURSIVE count_detected(_)
count_detected(rs) ==
    IF rs = <<>> THEN 0
    ELSE (IF rs[1].waf_detected THEN 1 ELSE 0) + count_detected(Tail(rs))

\* line 324: sum(1 for r in results if not r['waf_detected'])
RECURSIVE count_not_detected(_)
count_not_detected(rs) ==
    IF rs = <<>> THEN 0
    ELSE (IF ~rs[1].waf_detected THEN 1 ELSE 0) + count_not_detected(Tail(rs))

\* lines 319-327
json_data(rs, now) ==
    [metadata |-> [timestamp              |-> now,
                   total_urls             |-> Len(rs),
                   waf_detected_count     |-> count_detected(rs),
                   waf_not_detected_count |-> count_not_detected(rs)],
     results  |-> rs]

\* os.path.join('output', filename), written with the content
local_file(filename, content) ==
    [files   |-> << [path |-> <<"output", filename>>, content |-> content] >>,
     objects |-> <<>>]

\* `not self.s3_bucket`: no bucket, or an empty name
no_bucket(s3_bucket) == s3_bucket = None \/ s3_bucket = Some("")

\* lines 338-364: without a bucket, and when put_object raises, the content is
\* written locally
upload_to_s3(content, filename, config) ==
    IF no_bucket(config.s3_bucket)
    THEN local_file(filename, content)
    ELSE IF config.put_ok
    THEN [files   |-> <<>>,
          objects |-> << [bucket  |-> config.s3_bucket[1],
                          key     |-> filename,
                          content |-> content] >>]
    ELSE local_file(filename, content)

\* lines 314-336
save_json(rs, filename, config) ==
    IF rs = <<>>
    THEN [files |-> <<>>, objects |-> <<>>]
    ELSE IF config.local_mode
    THEN local_file(filename, json_data(rs, config.now))
    ELSE upload_to_s3(json_data(rs, config.now), filename, config)

\* the results check_waf_protection returns in the worlds of the batch
SampleResults ==
    { check_waf_protection_except(
          check_waf_protection_http(
              check_waf_protection_dns(new_result("https://a.example"), w[1], w[2]).result,
              h)).result : w \in MainDnsWorlds, h \in MainHttpWorlds }

SinkConfigs ==
    [local_mode : BOOLEAN,
     s3_bucket  : {None, Some(""), Some("waf-results")},
     put_ok     : BOOLEAN,
     now        : {1700000000}]

InitSave ==
    /\ mainIdle /\ dnsIdle /\ httpIdle /\ dwtIdle /\ srcIdle
    /\ json_results \in SeqsUpTo(SampleResults, MaxBatch)
    /\ json_config \in SinkConfigs
    /\ json_return = None

SaveJson ==
    /\ json_return = None
    /\ json_return' = Some(save_json(json_results, "waf_check_results.json", json_config))
    /\ UNCHANGED <<json_results, json_config, mainVars, dnsVars, httpVars, dwtVars, srcVars>>

NextSave == SaveJson

SpecSave == InitSave /\ [][NextSave]_vars

(***************************************************************************)
(* The URL sources: WAFChecker.load_urls_from_file and                     *)
(* WAFChecker.get_route53_records.  A call ends in [raised, urls].         *)
(***************************************************************************)
s_https == <<"h","t","t","p","s",":","/","/">>
s_http  == <<"h","t","t","p",":","/","/">>
s_hash  == <<"#">>

Whitespace == {" ", "\t", "\n", "\r"}

\* str.strip()
RECURSIVE lstrip(_)
lstrip(s) ==
    IF s /= <<>> /\ s[1] \in Whitespace THEN lstrip(Tail(s)) ELSE s
RECURSIVE rstrip(_)
rstrip(s) ==
    IF s /= <<>> /\ s[Len(s)] \in Whitespace THEN rstrip(SubSeq(s, 1, Len(s) - 1)) ELSE s
strip(s) == rstrip(lstrip(s))

\* str.rstrip('.')
RECURSIVE rstrip_dot(_)
rstrip_dot(s) ==
    IF s /= <<>> /\ s[Len(s)] = "." THEN rstrip_dot(SubSeq(s, 1, Len(s) - 1)) ELSE s

\* str.startswith(prefix)
startswith(s, prefix) ==
    Len(s) >= Len(prefix) /\ SubSeq(s, 1, Len(prefix)) = prefix

\* not x.startswith(('http://', 'https://'))
no_scheme(s) == ~(startswith(s, s_http) \/ startswith(s, s_https))

\* `max_urls and ...`: a limit is given, and is not 0
limit_given(max) == max /= None /\ max[1] /= 0

\* lines 125-134: the loop over the lines, left by the break of line 134
RECURSIVE file_loop(_, _, _)
file_loop(lines, found, max_urls) ==
    IF lines = <<>> THEN found
    ELSE LET line == strip(lines[1])
         IN  IF line /= <<>> /\ ~startswith(line, s_hash)
             THEN LET added == Append(found, IF no_scheme(line) THEN s_https \o line
                                                              ELSE line)
                  IN  IF limit_given(max_urls) /\ Len(added) >= max_urls[1]
                      THEN added
                      ELSE file_loop(Tail(lines), added, max_urls)
             ELSE file_loop(Tail(lines), found, max_urls)

\* lines 119-144; file is the lines of the file, None when there is no such file
load_urls_from_file(file, max_urls) ==
    IF file = None
    THEN [raised |-> "FileNotFoundError", urls |-> <<>>]
    ELSE [raised |-> NoException, urls |-> file_loop(file[1], <<>>, max_urls)]

\* lines 84-103 for one record; st is [urls, record_count, returned], returned
\* once line 103 has run
record_step(st, record, max_records) ==
    IF st.returned \/ record.Type \notin {"A", "CNAME", "AAAA"} THEN st
    ELSE LET domain == rstrip_dot(record.Name)
             url    == IF no_scheme(domain) THEN s_https \o domain ELSE domain
             count  == st.record_count + 1
         IN  [urls         |-> Append(st.urls, url),
              record_count |-> count,
              returned     |-> limit_given(max_records) /\ count >= max_records[1]]

\* line 83
RECURSIVE record_loop(_, _, _)
record_loop(st, records, max_records) ==
    IF records = <<>> THEN st
    ELSE record_loop(record_step(st, records[1], max_records), Tail(records), max_records)

\* line 82
RECURSIVE page_loop(_, _, _)
page_loop(st, pages, max_records) ==
    IF pages = <<>> THEN st
    ELSE page_loop(record_loop(st, pages[1], max_records), Tail(pages), max_records)

\* paginator.paginate(HostedZoneId=id): the pages of that zone of the account
zone_pages(account, id) ==
    LET k == CHOOSE k \in 1..Len(account.zones) : account.zones[k].Id = id
    IN  account.zones[k].pages

\* lines 75-105: the loop over zones.  A zone is a dict with the key Id and,
\* when it comes from list_hosted_zones, the key Name (None: no such key);
\* line 76 reads zone['Name'].  record_count starts at 0 for each zone
\* (line 81).
RECURSIVE zone_loop(_, _, _, _)
zone_loop(found, zones, account, max_records) ==
    IF zones = <<>> THEN [raised |-> NoException, urls |-> found]
    ELSE IF zones[1].Name = None
    THEN [raised |-> "KeyError", urls |-> <<>>]
    ELSE IF ~\E k \in 1..Len(account.zones) : account.zones[k].Id = zones[1].Id
    THEN [raised |-> "ClientError", urls |-> <<>>]
    ELSE LET st == page_loop([urls |-> found, record_count |-> 0, returned |-> FALSE],
                             zone_pages(account, zones[1].Id), max_records)
         IN  IF st.returned
             THEN [raised |-> NoException, urls |-> st.urls]
             ELSE zone_loop(st.urls, Tail(zones), account, max_records)

\* `if hosted_zone_id`: an id is given, and is not ''
zone_id_given(hosted_zone_id) == hosted_zone_id /= None /\ hosted_zone_id[1] /= ""

\* lines 62-117; account is [exc, zones]: what the Route53 API raises, and the
\* hosted zones it lists.  Every handler of lines 107-115 raises again.
get_route53_records(hosted_zone_id, max_records, account) ==
    IF zone_id_given(hosted_zone_id)
    THEN zone_loop(<<>>, << [Id |-> hosted_zone_id[1], Name |-> None] >>,
                   account, max_records)
    ELSE IF account.exc /= NoException
    THEN [raised |-> account.exc, urls |-> <<>>]
    ELSE zone_loop(<<>>,
                   [k \in 1..Len(account.zones) |->
                       [Id |-> account.zones[k].Id, Name |-> account.zones[k].Name]],
                   account, max_records)

\* inputs: the lines of a file
f_bare    == <<"a",".","i","o","\n">>
f_padded  == <<" ","b",".","i","o"," ","\n">>
f_https   == <<"h","t","t","p","s",":","/","/","c",".","i","o","\n">>
f_http    == <<"h","t","t","p",":","/","/","d",".","i","o">>
f_comment == <<"#"," ","e",".","i","o","\n">>
f_blank   == <<" ","\n">>
FileLines == {f_bare, f_padded, f_https, f_http, f_comment, f_blank}

\* inputs: record sets, zones and accounts
n_a == <<"a",".","i","o",".">>
n_b == <<"b",".","i","o",".">>
RecordSets ==
    { [Name |-> n_a, Type |-> "A"], [Name |-> n_b, Type |-> "CNAME"],
      [Name |-> n_a, Type |-> "AAAA"], [Name |-> n_a, Type |-> "MX"] }

\* the ways to cut a sequence of records into pages of one record or more
RECURSIVE Pagings(_)
Pagings(records) ==
    IF records = <<>> THEN {<<>>}
    ELSE UNION { { <<SubSeq(records, 1, k)>> \o rest :
                     rest \in Pagings(SubSeq(records, k + 1, Len(records))) } :
                 k \in 1..Len(records) }

ZoneContents == UNION {Pagings(rs) : rs \in NonEmptySeqsUpTo(RecordSets, MaxZoneRecords)}

ZoneIds   == <<"Z1", "Z2", "Z3", "Z4">>
ZoneNames == <<"one.io.", "two.io.", "three.io.", "four.io.">>

Accounts ==
    { [exc   |-> NoException,
       zones |-> [k \in 1..Len(c) |->
                    [Id |-> ZoneIds[k], Name |-> Some(ZoneNames[k]), pages |-> c[k]]]] :
          c \in SeqsUpTo(ZoneContents, MaxZones) }
    \cup { [exc |-> "NoCredentialsError", zones |-> <<>>] }
Limits == {None, Some(0), Some(1), Some(2)}

InitSources ==
    /\ mainIdle /\ dnsIdle /\ httpIdle /\ dwtIdle /\ sinkIdle
    /\ src_max \in Limits
    /\ src_return = None
    /\ \/ /\ src_call = "file"
          /\ src_file \in {None} \cup {Some(ls) : ls \in SeqsUpTo(FileLines, MaxLines)}
          /\ src_zones = None
          /\ src_zone_id = None
       \/ /\ src_call = "route53"
          /\ src_file = None
          /\ src_zones \in Accounts
          /\ src_zone_id \in {None, Some("Z1")}

LoadUrlsFromFile ==
    /\ src_call = "file"
    /\ src_return = None
    /\ src_return' = Some(load_urls_from_file(src_file, src_max))
    /\ UNCHANGED <<src_call, src_file, src_zones, src_zone_id, src_max,
                   mainVars, dnsVars, httpVars, dwtVars, sinkVars>>

GetRoute53Records ==
    /\ src_call = "route53"
    /\ src_return = None
    /\ src_return' = Some(get_route53_records(src_zone_id, src_max, src_zones))
    /\ UNCHANGED <<src_call, src_file, src_zones, src_zone_id, src_max,
                   mainVars, dnsVars, httpVars, dwtVars, sinkVars>>

NextSources == LoadUrlsFromFile \/ GetRoute53Records

SpecSources == InitSources /\ [][NextSources]_vars

(***************************************************************************)
(* Properties of check_waf_protection and of the batch (Spec).             *)
(***************************************************************************)
Returned_results == 1..Len(results)

\* the HTTP fetch of the i-th URL was made and raised
HttpFailed(i) == env[i].http \notin {"", "ok"}

\* the check of the i-th URL ended in an exception: its HTTP fetch raised, or
\* urlparse did before any lookup
CheckFailed(i) == HttpFailed(i) \/ urlparse_raises(urls[i])

\* C1: in every result check_waf_protection returned, waf_type is set if and
\* only if waf_detected is true.
C1_VendorIffDetected ==
    \A i \in Returned_results :
        (results[i].waf_type /= None) <=> results[i].waf_detected

\* C2: in every result check_waf_protection returned, waf_detected is true if
\* and only if waf_indicators is not empty.
C2_DetectedIffIndicators ==
    \A i \in Returned_results :
        results[i].waf_detected <=> (results[i].waf_indicators /= <<>>)

\* C2, its case: a result with indicators from DNS alone, the HTTP fetch having
\* failed, beside a result with no indicator at all
C2_Witness ==
    /\ \E i \in Returned_results :
        /\ HttpFailed(i)
        /\ results[i].waf_indicators /= <<>>
        /\ results[i].waf_detected
    /\ \E i \in Returned_results :
        /\ results[i].waf_indicators = <<>>
        /\ ~results[i].waf_detected

\* C3: a result whose HTTP fetch failed has error set, status_code and
\* response_time absent, every indicator of the DNS step in waf_indicators and,
\* with a non-empty list, the vendor resolved from the DNS indicators.
C3_HttpFailureKeepsDnsVerdict ==
    \A i \in Returned_results :
        HttpFailed(i) =>
            /\ results[i].error /= None
            /\ results[i].status_code = None
            /\ results[i].response_time = None
            /\ Range(env[i].dns) \subseteq Range(results[i].waf_indicators)
            /\ results[i].waf_indicators /= <<>> =>
                   results[i].waf_type = Some(determine_waf_type(env[i].dns))

C9_InterruptKeepsResults ==
    (pc = "interrupted" /\ results /= <<>>) => saved = <<results>>

(***************************************************************************)
(* Properties of _check_dns_indicators (SpecDns).                          *)
(***************************************************************************)
\* C4: when the CNAME lookup is made and answers with a target that contains a
\* CDN token, in any letter case, the returned list has the DNS_CNAME indicator
\* of that token.
C4_CnameTokenTagged ==
    (/\ dns_return /= None
     /\ dns_txt.exc /= "dns.Timeout"
     /\ dns_cname.exc = NoException) =>
        \A k \in 1..Len(cdn_tokens) :
            (Range(dns_cname.records) \cap TargetsOf(k) /= {}) =>
                (s_DNS_CNAME \o cdn_tokens[k]) \in Range(dns_return[1].indicators)

\* C10: whatever the two lookups do, _check_dns_indicators returns a list and
\* raises nothing, and the list is empty when the domain does not exist.
C10_DnsNeverRaises ==
    dns_return /= None =>
        /\ dns_return[1].raised = NoException
        /\ (dns_txt.exc = "dns.NXDOMAIN" /\ dns_cname.exc = "dns.NXDOMAIN") =>
               dns_return[1].indicators = <<>>

\* C10, its case: the call has returned for a domain that does not exist
C10_Witness ==
    /\ dns_return /= None
    /\ dns_txt.exc = "dns.NXDOMAIN"
    /\ dns_cname.exc = "dns.NXDOMAIN"
    /\ dns_return[1].indicators = <<>>

\* C14: a TXT lookup that fails with something other than an absent record
\* counts as no TXT record only: the CNAME lookup is still made.
C14_TxtFailureKeepsCnameLookup ==
    (dns_return /= None /\ dns_txt.exc = "dns.Timeout") =>
        /\ dns_return[1].raised = NoException
        /\ "CNAME" \in Range(dns_return[1].lookups)

(***************************************************************************)
(* Properties of _determine_waf_type (SpecResolve).                        *)
(***************************************************************************)
\* the positions of dwt_indicators tagged with the v-th vendor of the registry
TaggedAt(v) ==
    {i \in 1..Len(dwt_indicators) :
        \E p \in IndicatorPrefixes : dwt_indicators[i] = p \o waf_patterns[v].name}
CountOf(v) == Cardinality(TaggedAt(v))

\* the vendors with the highest count, when there is any indicator
Top == {v \in Vendors : CountOf(v) > 0 /\ \A w \in Vendors : CountOf(w) <= CountOf(v)}

\* the text _determine_waf_type returns for the v-th vendor: what follows the
\* last underscore of its identifier (C5)
ReturnedAs(v) == split_last(waf_patterns[v].name)

\* C5: when one vendor is tagged strictly more often than every other, the
\* returned vendor is its registry identifier.
C5_MajorityVendorWins ==
    dwt_return /= None =>
        \A v \in Vendors :
            (\A w \in Vendors \ {v} : CountOf(w) < CountOf(v)) =>
                dwt_return[1] = waf_patterns[v].name

\* C6 as claimed: among the vendors tied for the highest count, the one that
\* comes first in the registry is returned.
C6_TieByRegistryOrder ==
    (dwt_return /= None /\ Cardinality(Top) >= 2) =>
        \E v \in Top :
            /\ \A w \in Top : v <= w
            /\ dwt_return[1] = ReturnedAs(v)

\* C6 as amended: among the vendors tied for the highest count, the one whose
\* first indicator comes first in the list is returned.
C6_TieByFirstIndicator ==
    (dwt_return /= None /\ Cardinality(Top) >= 2) =>
        \E v \in Top :
            /\ \A w \in Top \ {v} : \E i \in TaggedAt(v) : \A j \in TaggedAt(w) : i < j
            /\ dwt_return[1] = ReturnedAs(v)

\* C6, its case: a tie in which the vendor returned, the first of the list, is
\* not the first of the registry
C6_Witness ==
    /\ dwt_return /= None
    /\ Cardinality(Top) >= 2
    /\ \E v \in Top :
        /\ dwt_return[1] = ReturnedAs(v)
        /\ \E w \in Top : w < v

(***************************************************************************)
(* Properties of _check_http_indicators (SpecHttp).                        *)
(***************************************************************************)
\* C7: a header whose name is a signature of a vendor, or contains it, in
\* either letter case, yields the HTTP_HEADER indicator of that vendor.
C7_HeaderSignatureTagged ==
    http_return /= None =>
        \A h \in Range(http_response.headers) : \A v \in Vendors :
            (\E S \in Range(waf_patterns[v].patterns) : h.name \in NameVariants(S)) =>
                (s_HTTP_HEADER \o waf_patterns[v].name) \in Range(http_return[1])

\* C7, its case: the response had a header named by a signature within a longer
\* name in upper case, and the call has returned
C7_Witness ==
    /\ http_return /= None
    /\ \E h \in Range(http_response.headers) : \E S \in Signatures :
        /\ h.name = upper(within(S))
        /\ h.name /= S
        /\ http_return[1] /= <<>>

(***************************************************************************)
(* Properties of _save_json (SpecSave).                                    *)
(***************************************************************************)
\* the documents a call wrote, wherever it wrote them
Documents ==
    {json_return[1].files[i].content : i \in 1..Len(json_return[1].files)}
        \cup {json_return[1].objects[i].content : i \in 1..Len(json_return[1].objects)}

\* one document was written, and it counts and holds the batch
OneDocumentOfTheBatch ==
    /\ Len(json_return[1].files) + Len(json_return[1].objects) = 1
    /\ \A doc \in Documents :
        /\ doc.metadata.total_urls = Len(json_results)
        /\ doc.metadata.waf_detected_count =
               Cardinality({i \in 1..Len(json_results) : json_results[i].waf_detected})
        /\ doc.results = json_results

\* C11 as claimed: a batch of any length N, 0 included, is serialised to a
\* document with total_urls = N, waf_detected_count the number of results with
\* waf_detected true, and the N results.
C11_DocumentCountsBatch ==
    json_return /= None => OneDocumentOfTheBatch

\* C11 as amended: so it is for every batch of one result or more; for the
\* empty batch nothing is written.
C11_DocumentCountsNonEmptyBatch ==
    json_return /= None =>
        IF json_results = <<>>
        THEN json_return[1].files = <<>> /\ json_return[1].objects = <<>>
        ELSE OneDocumentOfTheBatch

\* C11, its case: a document was put to S3 for a batch of two results or more
\* of which some but not all have waf_detected true, one of those without a
\* vendor
C11_Witness ==
    /\ json_return /= None
    /\ Len(json_results) >= 2
    /\ Len(json_return[1].objects) = 1
    /\ \E i, j, k \in 1..Len(json_results) :
        /\ json_results[i].waf_detected /\ json_results[i].waf_type = None
        /\ ~json_results[j].waf_detected
        /\ json_results[k].waf_detected /\ json_results[k].waf_type /= None

(***************************************************************************)
(* Properties of the URL sources (SpecSources).                            *)
(***************************************************************************)
\* the record sets of the zone with the given id that become URLs
UrlRecords(id) ==
    LET k     == CHOOSE k \in 1..Len(src_zones.zones) : src_zones.zones[k].Id = id
        pages == src_zones.zones[k].pages
    IN  {<<i, j>> \in (1..Len(pages)) \X (1..MaxZoneRecords) :
            j <= Len(pages[i]) /\ pages[i][j].Type \in {"A", "CNAME", "AAAA"}}

\* C12: with a positive limit, a URL source that returns gives at most that
\* many URLs.
C12_LimitHonoured ==
    (/\ src_return /= None
     /\ src_return[1].raised = NoException
     /\ src_max /= None
     /\ src_max[1] > 0) =>
        Len(src_return[1].urls) <= src_max[1]

\* C13: with the id of a hosted zone of the account, and no limit,
\* get_route53_records raises nothing and returns one URL with a scheme for
\* each A, CNAME and AAAA record set of that zone.
C13_ZoneIdListsZone ==
    (/\ src_call = "route53"
     /\ src_return /= None
     /\ src_zone_id /= None
     /\ src_max = None
     /\ src_zones.exc = NoException
     /\ \E k \in 1..Len(src_zones.zones) : src_zones.zones[k].Id = src_zone_id[1]) =>
        /\ src_return[1].raised = NoException
        /\ Len(src_return[1].urls) = Cardinality(UrlRecords(src_zone_id[1]))
        /\ \A i \in 1..Len(src_return[1].urls) : ~no_scheme(src_return[1].urls[i])

====
